---- MODULE Spec2Model ----
(***************************************************************************)
(* A model of the AI Resume Analyzer: App/App.py (the Streamlit script     *)
(* run() and its helpers) and App/ai_client.py (ask_ai and the Gemini      *)
(* client).                                                                *)
(*                                                                         *)
(* Python strings are modelled as sequences of pieces whose concatenation  *)
(* is the string.  The resume text, the skills and the keyword tables are  *)
(* sequences of single characters, so that str.upper(), str.lower() and    *)
(* the 'in' substring test are computed character by character.  Fixed     *)
(* labels and messages are one piece each.                                 *)
(***************************************************************************)
EXTENDS Integers, Sequences, FiniteSets, TLC

VARIABLES
    \* ---- ai_client.py module globals
    has_genai,          \* _has_genai: the google-genai SDK was imported
    API_KEY,            \* API_KEY: the configured key, or NoKey
    API_PROVIDER,       \* API_PROVIDER, lower-cased
    genai_client,       \* _genai_client: NoClient or TheClient
    \* ---- the ask_ai call of the last step, if it made one
    ai_prompt,          \* the prompt it was given
    ai_out,             \* what ask_ai did: the string returned (ret), whether an
                        \* exception left it (raised), whether it initialised the
                        \* client, called call_gemini, reached the provider
    \* ---- App.py module globals
    pdfminer_available, \* _pdfminer_available
    pdfplumber_available, \* _pdfplumber_available
    ResumeParser,       \* TRUE iff pyresparser was imported
    db_conn,            \* TRUE iff _db_conn and _db_cursor were established
    ai_import_ok,       \* TRUE iff "from ai_client import ask_ai" succeeds
    courses,            \* the Courses tables: name -> list of <<c_name, c_link>>
    \* ---- Streamlit widget state of the session
    choice,             \* sidebar selectbox
    pdf_file,           \* file_uploader: NoFile or an uploaded file
    no_of_reco,         \* slider in course_recommender
    pasted,             \* text_area "Paste resume text (optional)"
    \* ---- what the last execution of run() did
    run_out,            \* locals, displayed elements and exit of the last run()
    prev,               \* the analysis made by the latest earlier run() that
                        \* analysed a resume, with its inputs
    db,                 \* the rows the last run() committed to user_data and
                        \* user_feedback
    \* ---- a call of insert_data or insertf_data made on its own
    db_call             \* the function, the number of arguments, what it did

vars == << has_genai, API_KEY, API_PROVIDER, genai_client, ai_prompt, ai_out,
           pdfminer_available, pdfplumber_available, ResumeParser, db_conn,
           ai_import_ok, courses, choice, pdf_file, no_of_reco, pasted,
           run_out, prev, db, db_call >>

aiVars == << has_genai, API_KEY, API_PROVIDER, genai_client, ai_prompt, ai_out >>
appVars == << pdfminer_available, pdfplumber_available, ResumeParser, db_conn,
              ai_import_ok, courses, choice, pdf_file, no_of_reco, pasted,
              run_out, prev, db, db_call >>

-----------------------------------------------------------------------------
(* Python string primitives                                                *)

UpperOf == [a |-> "A", b |-> "B", c |-> "C", d |-> "D", e |-> "E", f |-> "F", g |-> "G", h |-> "H", i |-> "I", j |-> "J", k |-> "K", l |-> "L", m |-> "M", n |-> "N", o |-> "O", p |-> "P", q |-> "Q", r |-> "R", s |-> "S", t |-> "T", u |-> "U", v |-> "V", w |-> "W", x |-> "X", y |-> "Y", z |-> "Z"]

LowerOf == [A |-> "a", B |-> "b", C |-> "c", D |-> "d", E |-> "e", F |-> "f", G |-> "g", H |-> "h", I |-> "i", J |-> "j", K |-> "k", L |-> "l", M |-> "m", N |-> "n", O |-> "o", P |-> "p", Q |-> "q", R |-> "r", S |-> "s", T |-> "t", U |-> "u", V |-> "v", W |-> "w", X |-> "x", Y |-> "y", Z |-> "z"]

\* str.upper() on one character: ASCII letters are mapped, the rest is kept.
UpperChar(c) == IF c \in DOMAIN UpperOf THEN UpperOf[c] ELSE c

\* str.lower() on one character
LowerChar(c) == IF c \in DOMAIN LowerOf THEN LowerOf[c] ELSE c

\* s.upper()
Upper(s) == [i \in 1..Len(s) |-> UpperChar(s[i])]

\* s.lower()
Lower(s) == [i \in 1..Len(s) |-> LowerChar(s[i])]

\* p in s  (substring test; the empty pattern occurs in every string)
Contains(p, s) ==
    \/ Len(p) = 0
    \/ \E i \in 0..(Len(s) - Len(p)) :
          s[i + 1] = p[1] /\ SubSeq(s, i + 1, i + Len(p)) = p

\* x in lst  (list membership)
InList(x, lst) == \E i \in 1..Len(lst) : lst[i] = x

Digit == << "0", "1", "2", "3", "4", "5", "6", "7", "8", "9" >>

\* str(n) for an int n >= 0: its decimal digits
RECURSIVE DecStr(_)
DecStr(n) ==
    IF n < 10 THEN << Digit[n + 1] >>
    ELSE Append(DecStr(n \div 10), Digit[(n % 10) + 1])

\* int(s) for a string of decimal digits
RECURSIVE DecVal(_)
DecVal(s) ==
    IF Len(s) = 0 THEN 0
    ELSE 10 * DecVal(SubSeq(s, 1, Len(s) - 1))
         + (CHOOSE d \in 0..9 : Digit[d + 1] = s[Len(s)])

\* sep.join(parts)
RECURSIVE Join(_, _)
Join(parts, sep) ==
    IF Len(parts) = 0 THEN << >>
    ELSE IF Len(parts) = 1 THEN parts[1]
    ELSE parts[1] \o sep \o Join(Tail(parts), sep)

\* Python's None where a string is expected: one piece that is no character
PyNone == << "None" >>

-----------------------------------------------------------------------------
(* ai_client.py                                                            *)

NoKey == << >>
SomeKey == << "k", "e", "y" >>
NoClient == "None"
TheClient == "genai.Client"

\* Python truthiness of a string-or-None value
Truthy(s) == s # << >> /\ s # PyNone

ProviderGemini == << "g", "e", "m", "i", "n", "i" >>

\* API_PROVIDER = (_get_secret("AI_PROVIDER") or ... or "").lower()
ProviderSetting(raw) == Lower(IF Truthy(raw) THEN raw ELSE << >>)

\* what genai's generate_content may do: return a response object with a
\* .text attribute, a dict, any other object, or raise
Errors == { << "429 quota exceeded" >>, << "503 service unavailable" >> }
ProviderOutcomes ==
    { [kind |-> "attr", text |-> t, result |-> << >>, err |-> << >>] :
          t \in { << "Top strengths: ..." >>, << >>, PyNone } }
    \cup { [kind |-> "dict", text |-> t, result |-> r, err |-> << >>] :
          t \in { << "generated text" >>, PyNone },
          r \in { << "generated result" >>, PyNone } }
    \cup { [kind |-> "other", text |-> << "<GenerateContentResponse>" >>,
            result |-> << >>, err |-> << >>] }
    \cup { [kind |-> "raise", text |-> << >>, result |-> << >>, err |-> e] :
          e \in Errors }

\* _init_genai_client(): the value left in _genai_client.  ctor_ok says whether
\* genai.Client(api_key=API_KEY), or genai.Client() when there is no key,
\* returned a client rather than raising.
InitGenaiClient(hasg, client, ctor_ok) ==
    IF ~hasg THEN client
    ELSE IF ctor_ok THEN TheClient
    ELSE NoClient

\* the text call_gemini takes out of the response
ResponseText(resp) ==
    CASE resp.kind = "attr" -> resp.text
      [] resp.kind = "dict" ->
            IF Truthy(resp.text) THEN resp.text
            ELSE IF Truthy(resp.result) THEN resp.result
            ELSE << "json.dumps(resp)" >>
      [] OTHER -> resp.text

\* call_gemini(prompt): [raised, err, value, provider_called]
call_gemini(hasg, client, outcome) ==
    IF ~hasg \/ client = NoClient
    THEN [raised |-> TRUE,
          err |-> << "Google Gen AI SDK (google-genai) not available or not initialized." >>,
          value |-> << >>, provider_called |-> FALSE]
    ELSE IF outcome.kind = "raise"
    THEN [raised |-> TRUE, err |-> outcome.err, value |-> << >>,
          provider_called |-> TRUE]
    ELSE [raised |-> FALSE, err |-> << >>, value |-> ResponseText(outcome),
          provider_called |-> TRUE]

MsgNoPrompt == << "No prompt provided." >>
MsgNoText == << "No text returned from model." >>
MsgNotEnabled ==
    << "AI suggestions are not enabled. To enable them, add your API key to Streamlit secrets: ..." >>
MsgNotConfigured ==
    << "AI provider not configured or SDK not installed. Please add the google-genai SDK to requirements.txt." >>

\* traceback.format_exc() inside the handler: it ends with the exception's text
FormatExc(e) == << "Traceback (most recent call last): ... " >> \o e

\* f"AI provider error (Gemini): {e}\n\nTraceback:\n{tb}"
MsgProviderError(e) ==
    << "AI provider error (Gemini): " >> \o e \o << "Traceback:" >> \o FormatExc(e)

\* fault-seeded variant of GeminiOrError: no try/except around call_gemini
GeminiUnguarded(r) ==
    [ret |-> IF r.raised THEN << >>
             ELSE IF Truthy(r.value) THEN r.value ELSE MsgNoText,
     raised |-> r.raised]

\* fault-seeded variant of GeminiOrError: the text is returned as it is
GeminiNoFallback(r) ==
    IF r.raised
    THEN [ret |-> MsgProviderError(r.err), raised |-> FALSE]
    ELSE [ret |-> r.value, raised |-> FALSE]

\* the inner try/except of ask_ai around call_gemini
GeminiOrError(r) ==
    IF r.raised
    THEN [ret |-> MsgProviderError(r.err), raised |-> FALSE]
    ELSE [ret |-> IF Truthy(r.value) THEN r.value ELSE MsgNoText,
          raised |-> FALSE]

\* the fall-through of ask_ai when no provider answered
MsgNoProvider(key) == IF ~Truthy(key) THEN MsgNotEnabled ELSE MsgNotConfigured

\* fault-seeded variant of TriesGemini: the provider setting is not looked at
TriesGeminiAnyProvider(provider, hasg) == hasg

\* whether ask_ai tries Gemini at all
TriesGemini(provider, hasg) ==
    InList(provider, << << >>, ProviderGemini >>) /\ hasg

\* ask_ai(prompt).  ctor_ok and outcome are what the SDK does if it is used.
ask_ai(prompt, hasg, key, provider, client, ctor_ok, outcome) ==
    LET tries == Truthy(prompt) /\ TriesGemini(provider, hasg)
        init == tries /\ client = NoClient
        client1 == IF init THEN InitGenaiClient(hasg, client, ctor_ok) ELSE client
        calls == tries /\ client1 # NoClient
        r == call_gemini(hasg, client1, outcome)
        g == GeminiOrError(r)
    IN  [ret |-> IF ~Truthy(prompt) THEN MsgNoPrompt
                 ELSE IF calls THEN g.ret
                 ELSE MsgNoProvider(key),
         raised |-> calls /\ g.raised,
         client |-> client1,
         init_attempted |-> init,
         gemini_called |-> calls,
         gemini_raised |-> calls /\ r.raised,
         provider_called |-> calls /\ r.provider_called,
         generated |-> calls /\ ~r.raised /\ Truthy(r.value),
         err |-> IF calls /\ r.raised THEN r.err ELSE << >>,
         called |-> TRUE]

\* no ask_ai call yet
NoAiCall ==
    [ret |-> << >>, raised |-> FALSE, client |-> NoClient, init_attempted |-> FALSE,
     gemini_called |-> FALSE, gemini_raised |-> FALSE, provider_called |-> FALSE,
     generated |-> FALSE, err |-> << >>, called |-> FALSE]

-----------------------------------------------------------------------------
(* App.py: PDF text extraction                                             *)

\* An uploaded PDF, as the collaborators see it: what pdfminer does with it
\* (raise, or return text), what pdfplumber does (raise, or return the pages,
\* a page's extract_text() being a string or None), and what
\* ResumeParser(path).get_extracted_data() does (raise, return None or a dict).
\* A dict is [keys |-> the keys present, name, no_of_pages, skills].

\* pdfplumber branch: "\n".join([p.extract_text() or "" for p in pdf.pages])
PlumberText(pages) ==
    Join([i \in 1..Len(pages) |-> IF Truthy(pages[i]) THEN pages[i] ELSE << >>],
         << "\n" >>)

\* fault-seeded variant of extract_text_from_pdf: pdfplumber is tried first
ExtractPlumberFirst(f, miner_av, plumber_av) ==
    IF plumber_av /\ ~f.plumber.raises
    THEN [raised |-> FALSE, text |-> PlumberText(f.plumber.pages),
          miner_tried |-> FALSE, plumber_tried |-> TRUE, backend |-> "pdfplumber"]
    ELSE IF miner_av /\ ~f.miner.raises
    THEN [raised |-> FALSE, text |-> f.miner.text,
          miner_tried |-> TRUE, plumber_tried |-> plumber_av, backend |-> "pdfminer"]
    ELSE [raised |-> TRUE, text |-> << >>,
          miner_tried |-> miner_av, plumber_tried |-> plumber_av, backend |-> ""]

\* extract_text_from_pdf(path): whether it raised, the text it returned, the
\* backends it called and the one whose result it returned
extract_text_from_pdf(f, miner_av, plumber_av) ==
    IF miner_av /\ ~f.miner.raises
    THEN [raised |-> FALSE, text |-> f.miner.text,
          miner_tried |-> TRUE, plumber_tried |-> FALSE, backend |-> "pdfminer"]
    ELSE IF plumber_av /\ ~f.plumber.raises
    THEN [raised |-> FALSE, text |-> PlumberText(f.plumber.pages),
          miner_tried |-> miner_av, plumber_tried |-> TRUE, backend |-> "pdfplumber"]
    ELSE [raised |-> TRUE, text |-> << >>,
          miner_tried |-> miner_av, plumber_tried |-> plumber_av, backend |-> ""]

\* extract_text_from_pdf not called
NoExtract ==
    [raised |-> FALSE, text |-> << >>, miner_tried |-> FALSE, plumber_tried |-> FALSE,
     backend |-> ""]

\* fault-seeded variant of ExtractOrEmpty: no try/except around the call
ExtractUnguarded(x) ==
    [raised |-> x.raised, text |-> x.text, failed |-> x.raised]

\* run(): try: resume_text = extract_text_from_pdf(...) except: resume_text = ""
ExtractOrEmpty(x) ==
    IF x.raised THEN [raised |-> FALSE, text |-> << >>, failed |-> TRUE]
    ELSE [raised |-> FALSE, text |-> x.text, failed |-> FALSE]

EmptyDict == [keys |-> {}, name |-> << >>, no_of_pages |-> 0, skills |-> << >>]

\* run(): the pyresparser block: resume_data = parsed or {} when ResumeParser
\* is there and get_extracted_data() returns, {} when it raises or is missing
ParseOrEmpty(f, parser_av) ==
    IF parser_av /\ f.parsed.kind = "dict" /\ f.parsed.data.keys # {}
    THEN [raised |-> FALSE, data |-> f.parsed.data]
    ELSE [raised |-> FALSE, data |-> EmptyDict]

\* d.get(k, dflt)
Get(d, k, dflt) == IF k \in d.keys THEN d[k] ELSE dflt

-----------------------------------------------------------------------------
(* App.py: run(), the analysis of an uploaded resume                       *)

KW_OBJECTIVE == <<"O","B","J","E","C","T","I","V","E">>
KW_SUMMARY == <<"S","U","M","M","A","R","Y">>
KW_EDUCATION == <<"E","D","U","C","A","T","I","O","N">>
KW_SCHOOL == <<"S","C","H","O","O","L">>
KW_COLLEGE == <<"C","O","L","L","E","G","E">>
KW_EXPERIENCE == <<"E","X","P","E","R","I","E","N","C","E">>
KW_INTERNSHIP == <<"I","N","T","E","R","N","S","H","I","P">>
KW_INTERNSHIPS == <<"I","N","T","E","R","N","S","H","I","P","S">>
KW_SKILL == <<"S","K","I","L","L">>
KW_SKILLS == <<"S","K","I","L","L","S">>
KW_PROJECT == <<"P","R","O","J","E","C","T">>
KW_PROJECTS == <<"P","R","O","J","E","C","T","S">>

\* int(resume_data.get('no_of_pages') or 0)
PagesOf(resume_data) == Get(resume_data, "no_of_pages", 0)

\* fault-seeded variant of CandLevel: 'EXPERIENCE' tested before 'INTERNSHIP'
CandLevelExperienceFirst(resume_text, resume_data) ==
    LET text_upper == Upper(resume_text)
    IN  IF PagesOf(resume_data) < 1 THEN "NA"
        ELSE IF Contains(KW_EXPERIENCE, text_upper) THEN "Experienced"
        ELSE IF Contains(KW_INTERNSHIP, text_upper) THEN "Intermediate"
        ELSE "Fresher"

\* the level chain of run(): the value stored in cand_level
CandLevel(resume_text, resume_data) ==
    LET text_upper == Upper(resume_text)
    IN  IF PagesOf(resume_data) < 1 THEN "NA"
        ELSE IF Contains(KW_INTERNSHIP, text_upper) THEN "Intermediate"
        ELSE IF Contains(KW_EXPERIENCE, text_upper) THEN "Experienced"
        ELSE "Fresher"

\* the level chain of run(): the heading shown to the user
LevelMessage(resume_text, resume_data) ==
    LET text_upper == Upper(resume_text)
    IN  IF PagesOf(resume_data) < 1 THEN "You are at Fresher level!"
        ELSE IF Contains(KW_INTERNSHIP, text_upper)
        THEN "You are at intermediate level!"
        ELSE IF Contains(KW_EXPERIENCE, text_upper)
        THEN "You are at experience level!"
        ELSE "You are at Fresher level!!"

ds_keyword ==
    << <<"t","e","n","s","o","r","f","l","o","w">>,
       <<"k","e","r","a","s">>,
       <<"p","y","t","o","r","c","h">>,
       <<"m","a","c","h","i","n","e"," ","l","e","a","r","n","i","n","g">>,
       <<"d","e","e","p"," ","l","e","a","r","n","i","n","g">>,
       <<"f","l","a","s","k">>,
       <<"s","t","r","e","a","m","l","i","t">> >>

web_keyword ==
    << <<"r","e","a","c","t">>,
       <<"d","j","a","n","g","o">>,
       <<"n","o","d","e"," ","j","s">>,
       <<"r","e","a","c","t"," ","j","s">>,
       <<"p","h","p">>,
       <<"l","a","r","a","v","e","l">>,
       <<"m","a","g","e","n","t","o">>,
       <<"w","o","r","d","p","r","e","s","s">>,
       <<"j","a","v","a","s","c","r","i","p","t">>,
       <<"a","n","g","u","l","a","r"," ","j","s">>,
       <<"c","#">>,
       <<"a","s","p",".","n","e","t">>,
       <<"f","l","a","s","k">> >>

android_keyword ==
    << <<"a","n","d","r","o","i","d">>,
       <<"a","n","d","r","o","i","d"," ","d","e","v","e","l","o","p","m","e","n","t">>,
       <<"f","l","u","t","t","e","r">>,
       <<"k","o","t","l","i","n">>,
       <<"x","m","l">>,
       <<"k","i","v","y">> >>

ios_keyword ==
    << <<"i","o","s">>,
       <<"i","o","s"," ","d","e","v","e","l","o","p","m","e","n","t">>,
       <<"s","w","i","f","t">>,
       <<"c","o","c","o","a">>,
       <<"c","o","c","o","a"," ","t","o","u","c","h">>,
       <<"x","c","o","d","e">> >>

uiux_keyword ==
    << <<"u","x">>,
       <<"a","d","o","b","e"," ","x","d">>,
       <<"f","i","g","m","a">>,
       <<"z","e","p","l","i","n">>,
       <<"b","a","l","s","a","m","i","q">>,
       <<"u","i">>,
       <<"p","r","o","t","o","t","y","p","i","n","g">>,
       <<"w","i","r","e","f","r","a","m","e","s">>,
       <<"a","d","o","b","e"," ","p","h","o","t","o","s","h","o","p">>,
       <<"p","h","o","t","o","s","h","o","p">>,
       <<"i","l","l","u","s","t","r","a","t","o","r">> >>

n_any ==
    << <<"e","n","g","l","i","s","h">>,
       <<"c","o","m","m","u","n","i","c","a","t","i","o","n">>,
       <<"w","r","i","t","i","n","g">>,
       <<"m","i","c","r","o","s","o","f","t"," ","o","f","f","i","c","e">>,
       <<"l","e","a","d","e","r","s","h","i","p">>,
       <<"c","u","s","t","o","m","e","r"," ","m","a","n","a","g","e","m","e","n","t">>,
       <<"s","o","c","i","a","l"," ","m","e","d","i","a">> >>

\* fault-seeded variant of FieldOfSkill: web_keyword is tested first
FieldOfSkillWebFirst(il) ==
    IF InList(il, web_keyword) THEN "Web Development"
    ELSE IF InList(il, ds_keyword) THEN "Data Science"
    ELSE IF InList(il, android_keyword) THEN "Android Development"
    ELSE IF InList(il, ios_keyword) THEN "IOS Development"
    ELSE IF InList(il, uiux_keyword) THEN "UI-UX Development"
    ELSE IF InList(il, n_any) THEN "NA"
    ELSE ""

\* the if/elif chain inside the skills loop: the field of one lower-cased
\* skill, "" when no table holds it
FieldOfSkill(il) ==
    IF InList(il, ds_keyword) THEN "Data Science"
    ELSE IF InList(il, web_keyword) THEN "Web Development"
    ELSE IF InList(il, android_keyword) THEN "Android Development"
    ELSE IF InList(il, ios_keyword) THEN "IOS Development"
    ELSE IF InList(il, uiux_keyword) THEN "UI-UX Development"
    ELSE IF InList(il, n_any) THEN "NA"
    ELSE ""

\* fault-seeded variant of SkillsLoop: the branches do not break
RECURSIVE SkillsLoopNoBreak(_)
SkillsLoopNoBreak(skills_list) ==
    IF Len(skills_list) = 0 THEN << >>
    ELSE IF Head(skills_list) = PyNone THEN SkillsLoopNoBreak(Tail(skills_list))
    ELSE IF FieldOfSkill(Lower(Head(skills_list))) # ""
    THEN << FieldOfSkill(Lower(Head(skills_list))) >>
         \o SkillsLoopNoBreak(Tail(skills_list))
    ELSE SkillsLoopNoBreak(Tail(skills_list))

\* for i in skills_list: ... break  -- the branches of the if/elif chain the
\* loop executes, each named by the reco_field it sets; a None entry is
\* skipped, a skill in no table executes no branch, a branch ends the loop
RECURSIVE SkillsLoop(_)
SkillsLoop(skills_list) ==
    IF Len(skills_list) = 0 THEN << >>
    ELSE IF Head(skills_list) = PyNone THEN SkillsLoop(Tail(skills_list))
    ELSE IF FieldOfSkill(Lower(Head(skills_list))) # ""
    THEN << FieldOfSkill(Lower(Head(skills_list))) >>
    ELSE SkillsLoop(Tail(skills_list))

\* reco_field after the loop: '' unless a branch set it
PredictField(skills_list) ==
    LET branches == SkillsLoop(skills_list)
    IN  IF Len(branches) = 0 THEN "" ELSE branches[Len(branches)]

\* recommended_skills of each branch
RecommendedSkills(reco_field) ==
    CASE reco_field = "Data Science" ->
            << "Data Visualization", "Predictive Analysis", "Statistical Modeling",
               "Data Mining", "Clustering & Classification", "Data Analytics",
               "Quantitative Analysis", "Web Scraping", "ML Algorithms", "Keras",
               "Pytorch", "Probability", "Scikit-learn", "Tensorflow", "Flask",
               "Streamlit" >>
      [] reco_field = "Web Development" ->
            << "React", "Django", "Node JS", "React JS", "PHP", "Laravel", "Magento",
               "Wordpress", "Javascript", "Angular JS", "C#", "Flask", "SDK" >>
      [] reco_field = "Android Development" ->
            << "Android", "Android development", "Flutter", "Kotlin", "XML", "Java",
               "Kivy", "GIT", "SDK", "SQLite" >>
      [] reco_field = "IOS Development" ->
            << "IOS", "IOS Development", "Swift", "Cocoa", "Cocoa Touch", "Xcode",
               "Objective-C", "SQLite", "Plist", "StoreKit", "UI-Kit", "AV Foundation",
               "Auto-Layout" >>
      [] reco_field = "UI-UX Development" ->
            << "UI", "User Experience", "Adobe XD", "Figma", "Zeplin", "Balsamiq",
               "Prototyping", "Wireframes", "Storyframes", "Adobe Photoshop", "Editing",
               "Illustrator", "After Effects", "Premier Pro", "Indesign" >>
      [] reco_field = "NA" -> << "No Recommendations" >>
      [] OTHER -> << >>

\* the course table a branch hands to course_recommender, "" when it calls none
CourseTableOf(reco_field) ==
    CASE reco_field = "Data Science" -> "ds_course"
      [] reco_field = "Web Development" -> "web_course"
      [] reco_field = "Android Development" -> "android_course"
      [] reco_field = "IOS Development" -> "ios_course"
      [] reco_field = "UI-UX Development" -> "uiux_course"
      [] OTHER -> ""

\* the loop of course_recommender over the shuffled list: append c_name,
\* stop when c == no_of_reco
RECURSIVE RecLoop(_, _, _, _)
RecLoop(course_list, c, n, rec_course) ==
    IF Len(course_list) = 0 THEN rec_course
    ELSE IF c + 1 = n THEN Append(rec_course, Head(course_list)[1])
    ELSE RecLoop(Tail(course_list), c + 1, n, Append(rec_course, Head(course_list)[1]))

\* random.shuffle(course_list): the orders it can leave the list in
RECURSIVE Shuffles(_)
Shuffles(course_list) ==
    IF Len(course_list) = 0 THEN { << >> }
    ELSE UNION { { << course_list[i] >> \o rest :
                     rest \in Shuffles([j \in 1..(Len(course_list) - 1) |->
                                 IF j < i THEN course_list[j] ELSE course_list[j + 1]]) } :
                 i \in 1..Len(course_list) }

\* course_recommender(course_list), shuffled being the order random.shuffle
\* left the list in: the list itself is reordered, the names are returned
course_recommender(shuffled, n) ==
    [course_list |-> shuffled, rec_course |-> RecLoop(shuffled, 0, n, << >>)]

\* the points of the six section checks of the scoring pass
PtsObjective == 6
PtsEducation == 12
PtsExperience == 16
PtsInternship == 6
PtsSkills == 7
PtsProjects == 19

\* the six section checks, in the order run() makes them: the names tested
\* with 'or' against text_upper, and the points added when one occurs
SectionChecks ==
    << [names |-> << KW_OBJECTIVE, KW_SUMMARY >>, pts |-> PtsObjective],
       [names |-> << KW_EDUCATION, KW_SCHOOL, KW_COLLEGE >>, pts |-> PtsEducation],
       [names |-> << KW_EXPERIENCE >>, pts |-> PtsExperience],
       [names |-> << KW_INTERNSHIP, KW_INTERNSHIPS >>, pts |-> PtsInternship],
       [names |-> << KW_SKILL, KW_SKILLS >>, pts |-> PtsSkills],
       [names |-> << KW_PROJECT, KW_PROJECTS >>, pts |-> PtsProjects] >>

\* fault-seeded variant of AddSection: the points are added once per name
\* that occurs instead of once per check
AddSectionPerName(resume_score, check, text_upper) ==
    resume_score
    + check.pts * Cardinality({ i \in 1..Len(check.names) :
                                  Contains(check.names[i], text_upper) })

\* one check: "A" in text_upper or "B" in text_upper: resume_score += pts
AddSection(resume_score, check, text_upper) ==
    IF \E i \in 1..Len(check.names) : Contains(check.names[i], text_upper)
    THEN resume_score + check.pts
    ELSE resume_score

\* fault-seeded variant of ScoreSteps: the names are looked for in the text
\* as written, without upper()
ScoreStepsNoUpper(resume_text) ==
    LET s0 == 0
        s1 == AddSection(s0, SectionChecks[1], resume_text)
        s2 == AddSection(s1, SectionChecks[2], resume_text)
        s3 == AddSection(s2, SectionChecks[3], resume_text)
        s4 == AddSection(s3, SectionChecks[4], resume_text)
        s5 == AddSection(s4, SectionChecks[5], resume_text)
        s6 == AddSection(s5, SectionChecks[6], resume_text)
    IN  << s0, s1, s2, s3, s4, s5, s6 >>

\* the values resume_score takes in the scoring pass: 0, then one per check
ScoreSteps(resume_text) ==
    LET text_upper == Upper(resume_text)
        s0 == 0
        s1 == AddSection(s0, SectionChecks[1], text_upper)
        s2 == AddSection(s1, SectionChecks[2], text_upper)
        s3 == AddSection(s2, SectionChecks[3], text_upper)
        s4 == AddSection(s3, SectionChecks[4], text_upper)
        s5 == AddSection(s4, SectionChecks[5], text_upper)
        s6 == AddSection(s5, SectionChecks[6], text_upper)
    IN  << s0, s1, s2, s3, s4, s5, s6 >>

\* the value the progress bar ends at: range(min(resume_score, 100))
BarEnd(resume_score) == IF resume_score < 100 THEN resume_score ELSE 100

\* st.success(f'** Your Resume Writing Score: {resume_score} **')
ScoreMessage(resume_score) ==
    << "** Your Resume Writing Score: " >> \o DecStr(resume_score) \o << " **" >>

\* str(lst) of a list of strings
ListRepr(lst) ==
    << "[" >> \o Join([i \in 1..Len(lst) |-> << "'", lst[i], "'" >>], << ", " >>)
              \o << "]" >>

\* str(x) where x is a list of strings or a string
PyStr(x) == IF x.is_list THEN ListRepr(x.v) ELSE x.v

NoArgs ==
    [called |-> FALSE, res_score |-> << >>, no_of_pages |-> << >>, reco_field |-> "",
     cand_level |-> "", recommended_skills |-> << >>, courses |-> << >>]

\* rec_course after the skills loop: the names course_recommender returned,
\* the 'NA' text, or the initial ''
RecCourse(reco_field, n, shuffled) ==
    IF CourseTableOf(reco_field) # ""
    THEN [is_list |-> TRUE, v |-> course_recommender(shuffled, n).rec_course]
    ELSE IF reco_field = "NA"
    THEN [is_list |-> FALSE, v |-> << "Sorry! Not Available for this Field" >>]
    ELSE [is_list |-> FALSE, v |-> << >>]

\* the level block of run()
LevelOf(resume_text, resume_data) ==
    [cand_level |-> CandLevel(resume_text, resume_data),
     level_msg |-> LevelMessage(resume_text, resume_data)]

\* fault-seeded variant of ScoreOf: resume_score is not reset to 0 but
\* carried over from the previous execution of run()
ScoreOfCarried(resume_text) ==
    LET steps == ScoreSteps(resume_text)
        resume_score == run_out.a.resume_score + steps[Len(steps)]
    IN  [score_steps |-> [k \in 1..Len(steps) |-> run_out.a.resume_score + steps[k]],
         resume_score |-> resume_score,
         bar |-> BarEnd(resume_score),
         score_msg |-> ScoreMessage(resume_score)]

\* the scoring pass of run() and what it shows
ScoreOf(resume_text) ==
    LET steps == ScoreSteps(resume_text)
        resume_score == steps[Len(steps)]
    IN  [score_steps |-> steps,
         resume_score |-> resume_score,
         bar |-> BarEnd(resume_score),
         score_msg |-> ScoreMessage(resume_score)]

\* what the analysis block of run() computes and shows for a non-empty
\* resume_data, from its level block, its skills loop (reco_field,
\* rec_course) and its scoring pass, and what it hands to insert_data
Analysis(level, reco_field, rec_course, score, resume_data) ==
    [cand_level |-> level.cand_level,
     level_msg |-> level.level_msg,
     reco_field |-> reco_field,
     recommended_skills |-> RecommendedSkills(reco_field),
     branches |-> SkillsLoop(Get(resume_data, "skills", << >>)),
     rec_course |-> rec_course,
     slider_shown |-> CourseTableOf(reco_field) # "",
     score_steps |-> score.score_steps,
     resume_score |-> score.resume_score,
     bar |-> score.bar,
     score_msg |-> score.score_msg,
     insert_args |->
        [called |-> TRUE,
         res_score |-> DecStr(score.resume_score),
         no_of_pages |-> IF "no_of_pages" \in resume_data.keys
                         THEN DecStr(resume_data.no_of_pages) ELSE << >>,
         reco_field |-> reco_field,
         cand_level |-> level.cand_level,
         recommended_skills |->
             PyStr([is_list |-> TRUE, v |-> RecommendedSkills(reco_field)]),
         courses |-> PyStr(rec_course)]]

\* the values of the same fields in a run that analyses nothing
NoAnalysis ==
    [cand_level |-> "", level_msg |-> "", reco_field |-> "",
     recommended_skills |-> << >>, branches |-> << >>,
     rec_course |-> [is_list |-> FALSE, v |-> << >>],
     slider_shown |-> FALSE, score_steps |-> << 0 >>, resume_score |-> 0, bar |-> 0,
     score_msg |-> << >>, insert_args |-> NoArgs]

\* insert_data(*args) and insertf_data(...): execute and commit only when the
\* connection is there; exec_ok says that neither raised, and the handler
\* swallows what they raise
insert_data(connected, exec_ok) ==
    [committed |-> connected /\ exec_ok, raised |-> FALSE]

\* the values insert_data unpacks from *args
NArgsUserData == 23
\* the parameters of insertf_data
NArgsFeedback == 5

\* fault-seeded variant of insert_data_call: no try/except in insert_data
InsertDataUnguarded(connected, nargs, exec_ok) ==
    [executed |-> connected /\ nargs = NArgsUserData,
     committed |-> connected /\ nargs = NArgsUserData /\ exec_ok,
     raised |-> connected /\ (nargs # NArgsUserData \/ ~exec_ok)]

\* insert_data(*args) given nargs arguments: nothing is done without the
\* connection; with it the unpacking of args, execute and commit are inside
\* the try, and the handler swallows what any of them raises
insert_data_call(connected, nargs, exec_ok) ==
    [executed |-> connected /\ nargs = NArgsUserData,
     committed |-> connected /\ nargs = NArgsUserData /\ exec_ok,
     raised |-> FALSE]

\* insertf_data(feed_name, feed_email, feed_score, comments, Timestamp) given
\* nargs arguments: a call with another number of arguments raises TypeError
\* before the body is entered
insertf_data_call(connected, nargs, exec_ok) ==
    [executed |-> connected /\ nargs = NArgsFeedback,
     committed |-> connected /\ nargs = NArgsFeedback /\ exec_ok,
     raised |-> nargs # NArgsFeedback]

\* neither was called on its own
NoDbCall ==
    [called |-> FALSE, fn |-> "", nargs |-> 0, exec_ok |-> TRUE, executed |-> FALSE,
     committed |-> FALSE, raised |-> FALSE]

-----------------------------------------------------------------------------
(* App.py: run(), the AI suggestions section                               *)

\* globals().get(k) for k in _possible_keys: no module-level name of App.py
\* is one of the keys (resume_text is a local of run())
GlobalsGet(k) == PyNone

\* st.session_state.get(k): nothing in App.py stores into st.session_state
SessionGet(k) == PyNone

possible_keys ==
    << "resume_text", "text", "doc_text", "parsed_text", "resume_str", "extracted_text" >>

\* the first truthy value a lookup gives for the keys, PyNone when none is
RECURSIVE FirstTruthy(_, _)
FirstTruthy(keys, lookup) ==
    IF Len(keys) = 0 THEN PyNone
    ELSE IF Truthy(IF lookup = "globals" THEN GlobalsGet(Head(keys))
                   ELSE SessionGet(Head(keys)))
    THEN (IF lookup = "globals" THEN GlobalsGet(Head(keys)) ELSE SessionGet(Head(keys)))
    ELSE FirstTruthy(Tail(keys), lookup)

\* resume_text of the AI section before the paste fallback
AiFoundText ==
    IF Truthy(FirstTruthy(possible_keys, "globals"))
    THEN FirstTruthy(possible_keys, "globals")
    ELSE FirstTruthy(possible_keys, "session")

\* resume_text of the AI section: the text found, else the pasted text
AiResumeText(paste) == IF Truthy(AiFoundText) THEN AiFoundText ELSE paste

PromptHead ==
    "You are an expert career coach. Analyze this resume and provide: ... Resume:"

\* the prompt built on 'Get AI suggestions'
AiPrompt(paste) == << PromptHead >> \o AiResumeText(paste)

MsgAiFallback ==
    << "AI suggestions not configured. Add AI_API_KEY to Streamlit secrets to enable." >>

\* the try/except of run() around the ask_ai call: what is written, and
\* whether st.error was shown instead
AiShown(r) ==
    IF r.raised THEN [text |-> << >>, error_shown |-> TRUE, raised |-> FALSE]
    ELSE [text |-> r.ret, error_shown |-> FALSE, raised |-> FALSE]

-----------------------------------------------------------------------------
(* The session: every widget interaction re-executes run()                  *)

Choices == { "User", "Feedback", "About", "Admin" }

\* st.slider('Choose Number of Course Recommendations:', 1, 10, 5)
DefaultReco == 5
\* the slider positions explored below the default
MaxReco == 1

NoFile ==
    [present |-> FALSE,
     miner |-> [raises |-> TRUE, text |-> << >>],
     plumber |-> [raises |-> TRUE, pages |-> << >>],
     parsed |-> [kind |-> "none", data |-> EmptyDict]]

NoFeedback == [submitted |-> FALSE, feed_score |-> 0]

\* One execution of run() with the widgets at ch, file, n, paste, the
\* 'Get AI suggestions' button at click and the feedback form at fb.
\* outcomes is what the provider may do in this execution.
Rerun(ch, file, n, paste, click, fb, outcomes) ==
    LET uploads == ch = "User" /\ file.present
        extraction == extract_text_from_pdf(file, pdfminer_available,
                                            pdfplumber_available)
        ext == ExtractOrEmpty(extraction)
        prs == ParseOrEmpty(file, ResumeParser)
        analyses == uploads /\ prs.data.keys # {}
        reco_field == PredictField(Get(prs.data, "skills", << >>))
        table == IF analyses THEN CourseTableOf(reco_field) ELSE ""
        level == LevelOf(ext.text, prs.data)
        score == ScoreOf(ext.text)
        feeds == ch = "Feedback" /\ fb.submitted
        asks == click /\ ai_import_ok
        \* the SDK is reached only on these paths
        inits == asks /\ TriesGemini(API_PROVIDER, has_genai) /\ genai_client = NoClient
        calls == asks /\ TriesGemini(API_PROVIDER, has_genai)
    IN  \E shuffled \in (IF table # "" THEN Shuffles(courses[table]) ELSE { << >> }),
           exec_ok \in (IF db_conn /\ (analyses \/ feeds) THEN BOOLEAN ELSE { TRUE }),
           ctor_ok \in (IF inits THEN BOOLEAN ELSE { TRUE }),
           outcome \in (IF calls THEN outcomes
                        ELSE { [kind |-> "other", text |-> << >>, result |-> << >>,
                                err |-> << >>] }) :
          LET a == IF analyses
                   THEN Analysis(level, reco_field, RecCourse(reco_field, n, shuffled),
                                 score, prs.data)
                   ELSE NoAnalysis
              ins == insert_data(db_conn, exec_ok)
              r == ask_ai(AiPrompt(paste), has_genai, API_KEY, API_PROVIDER,
                          genai_client, ctor_ok, outcome)
              sh == AiShown(r)
              raised == \/ uploads /\ (ext.raised \/ prs.raised)
                        \/ (analyses \/ feeds) /\ ins.raised
                        \/ asks /\ sh.raised
          IN  /\ courses' = IF table # "" THEN [courses EXCEPT ![table] = shuffled]
                            ELSE courses
              /\ no_of_reco' = IF a.slider_shown THEN n ELSE DefaultReco
              /\ db' = [user_data |-> IF analyses /\ ins.committed THEN a.insert_args
                                      ELSE NoArgs,
                        user_feedback |-> IF feeds /\ ins.committed THEN fb
                                          ELSE NoFeedback]
              /\ ai_prompt' = IF asks THEN AiPrompt(paste) ELSE << >>
              /\ ai_out' = IF asks THEN r ELSE NoAiCall
              /\ genai_client' = IF asks THEN r.client ELSE genai_client
              /\ prev' = IF run_out.analysed
                         THEN [valid |-> TRUE, resume_text |-> run_out.resume_text,
                               resume_data |-> run_out.resume_data,
                               no_of_reco |-> no_of_reco, a |-> run_out.a]
                         ELSE prev
              /\ run_out' =
                    [ran |-> TRUE,
                     raised |-> raised,
                     completed |-> ~raised,
                     uploaded |-> uploads,
                     extraction |-> IF uploads THEN extraction ELSE NoExtract,
                     extract_failed |-> uploads /\ ext.failed,
                     resume_text |-> IF uploads THEN ext.text ELSE << >>,
                     resume_data |-> IF uploads THEN prs.data ELSE EmptyDict,
                     analysed |-> analyses,
                     parse_error_shown |-> uploads /\ ~analyses,
                     a |-> a,
                     insert_committed |-> analyses /\ ins.committed,
                     db_failed |-> (analyses \/ feeds) /\ db_conn /\ ~exec_ok,
                     feedback_submitted |-> feeds,
                     feedback_committed |-> feeds /\ ins.committed,
                     thanks_shown |-> feeds,
                     paste_info_shown |-> ~Truthy(AiFoundText),
                     ai_clicked |-> click,
                     ai_text |-> IF ~click THEN << >>
                                 ELSE IF ai_import_ok THEN sh.text ELSE MsgAiFallback,
                     ai_error_shown |-> asks /\ sh.error_shown]
              /\ UNCHANGED << has_genai, API_KEY, API_PROVIDER, pdfminer_available,
                              pdfplumber_available, ResumeParser, db_conn,
                              ai_import_ok, db_call >>

NoPrev ==
    [valid |-> FALSE, resume_text |-> << >>, resume_data |-> EmptyDict,
     no_of_reco |-> DefaultReco, a |-> NoAnalysis]

NotRun ==
    [ran |-> FALSE, raised |-> FALSE, completed |-> FALSE, uploaded |-> FALSE,
     extraction |-> NoExtract, extract_failed |-> FALSE, resume_text |-> << >>, resume_data |-> EmptyDict,
     analysed |-> FALSE, parse_error_shown |-> FALSE, a |-> NoAnalysis,
     insert_committed |-> FALSE, db_failed |-> FALSE, feedback_submitted |-> FALSE,
     feedback_committed |-> FALSE, thanks_shown |-> FALSE,
     paste_info_shown |-> FALSE, ai_clicked |-> FALSE, ai_text |-> << >>,
     ai_error_shown |-> FALSE]

-----------------------------------------------------------------------------
(* Inputs: resume texts, parser results, uploaded files, deployments       *)

FragObjective == <<"C","a","r","e","e","r"," ","O","b","j","e","c","t","i","v","e","."," ">>
FragSummary == <<"s","u","m","m","a","r","y",":"," ">>
FragEducation == <<"E","d","u","c","a","t","i","o","n",":"," ","S","c","h","o","o","l",","," ","C","o","l","l","e","g","e","."," ">>
FragExperience == <<"W","o","r","k"," ","e","x","p","e","r","i","e","n","c","e","."," ">>
FragInternship == <<"I","n","t","e","r","n","s","h","i","p","s","."," ">>
FragSkills == <<"S","k","i","l","l","s","."," ">>
FragProjects == <<"P","r","o","j","e","c","t","s",".">>
TextExample3 == <<"S","e","n","i","o","r"," ","e","n","g","i","n","e","e","r"," ","w","i","t","h"," ","R","T","O","S"," ","a","n","d"," ","f","i","r","m","w","a","r","e"," ","e","x","p","e","r","i","e","n","c","e",","," ","9"," ","y","e","a","r","s">>

Fragments ==
    << FragObjective, FragSummary, FragEducation, FragExperience, FragInternship,
       FragSkills, FragProjects >>

\* the text made of the fragments picked by S, in the order of Fragments
RECURSIVE TextFrom(_, _)
TextFrom(S, k) ==
    IF k > Len(Fragments) THEN << >>
    ELSE (IF k \in S THEN Fragments[k] ELSE << >>) \o TextFrom(S, k + 1)

AllTexts == { TextFrom(S, 1) : S \in SUBSET (1..Len(Fragments)) } \cup { TextExample3 }

\* the texts of the session specification
SessionTexts == { << >>, TextFrom({4, 5}, 1) }

SkKeras == <<"K","e","r","a","s">>
SkReact == <<"R","e","a","c","t">>
SkEnglish == <<"E","n","g","l","i","s","h">>
SkCobol == <<"C","o","b","o","l">>

SkillLists == { << >>, << SkCobol, SkKeras >>, << PyNone, SkEnglish >> }

SkFlask == <<"F","l","a","s","k">>
SkDjango == <<"D","j","a","n","g","o">>
SkKotlin == <<"k","o","t","l","i","n">>
SkSwift == <<"S","W","I","F","T">>
SkFigma == <<"F","i","g","m","a">>

\* the skills the skill lists of the skills specification are made of
SkillPool == { SkKeras, SkFlask, SkReact, SkDjango, SkFigma, SkEnglish, SkCobol, PyNone }

\* the longest skill list made of them
MaxSkills == 3

\* every list of up to MaxSkills skills of the pool, and a list for each of
\* the two tables the pool leaves out
ManySkillLists ==
    UNION { [1..n -> SkillPool] : n \in 0..MaxSkills }
    \cup { << SkCobol, SkKotlin, SkKeras >>, << SkSwift, SkReact >> }

\* the skill lists of the files pdfminer fails on
FewSkillLists == { << >>, << SkCobol, SkKeras >> }

\* parser results: a dict with or without 'no_of_pages', and its skills
Dicts(pages, lists) ==
    { [keys |-> {"name", "skills"} \cup ks, name |-> << "A" >>, no_of_pages |-> n,
       skills |-> l] :
        ks \in { {}, {"no_of_pages"} }, n \in pages, l \in lists }

ParsedOutcomes(pages, lists) ==
    { [kind |-> "raise", data |-> EmptyDict], [kind |-> "none", data |-> EmptyDict] }
    \cup { [kind |-> "dict", data |-> d] :
             d \in { e \in Dicts(pages, lists) :
                       "no_of_pages" \in e.keys \/ e.no_of_pages = 0 } }

PlumberPages == << << "p", "1" >>, PyNone, << "p", "3" >> >>

\* files pdfminer reads
ReadableFiles(texts, parsed) ==
    { [present |-> TRUE, miner |-> [raises |-> FALSE, text |-> t],
       plumber |-> [raises |-> FALSE, pages |-> PlumberPages], parsed |-> p] :
        t \in texts, p \in parsed }

\* files pdfminer fails on
UnreadableFiles(parsed) ==
    { [present |-> TRUE, miner |-> [raises |-> TRUE, text |-> << >>],
       plumber |-> pl, parsed |-> p] :
        pl \in { [raises |-> TRUE, pages |-> << >>],
                 [raises |-> FALSE, pages |-> PlumberPages] },
        p \in parsed }

SessionFiles ==
    ReadableFiles(SessionTexts, ParsedOutcomes({0, 1}, SkillLists))
    \cup UnreadableFiles(ParsedOutcomes({1}, FewSkillLists))

TextFiles ==
    ReadableFiles(AllTexts, ParsedOutcomes({0, 1}, { << >> }))

\* the files of the skills specification: one text, every skill list
SkillFiles ==
    ReadableFiles({ TextFrom({6}, 1) },
                  { [kind |-> "dict", data |-> d] :
                      d \in { e \in Dicts({1}, ManySkillLists) :
                                "no_of_pages" \in e.keys } })

\* Courses.py: the course tables (name, link), or the empty fallback lists
CourseTables ==
    [ds_course |-> << << "DS1", "l1" >>, << "DS2", "l2" >> >>,
     web_course |-> << << "WEB1", "l1" >>, << "WEB2", "l2" >> >>,
     android_course |-> << << "AND1", "l1" >>, << "AND2", "l2" >> >>,
     ios_course |-> << << "IOS1", "l1" >>, << "IOS2", "l2" >> >>,
     uiux_course |-> << << "UX1", "l1" >>, << "UX2", "l2" >> >>]

FallbackTables ==
    [ds_course |-> << >>, web_course |-> << >>, android_course |-> << >>,
     ios_course |-> << >>, uiux_course |-> << >>]

\* the optional components a deployment may lack
Components ==
    { "pdfminer", "pdfplumber", "pyresparser", "pymysql", "mysql_server",
      "ai_client", "Courses", "genai", "api_key" }

\* deployments of the session specification: complete, lacking one component,
\* lacking all
Deployments == { {} } \cup { {c} : c \in Components } \cup { Components }

RawProviders ==
    { PyNone, << >>, ProviderGemini, << "G", "e", "m", "i", "n", "i" >>,
      << "o", "p", "e", "n", "a", "i" >> }

Prompts == { << >>, << "Analyze this resume" >>, << PromptHead, "x" >> }

\* what the provider does when the session asks it
SessionOutcomes ==
    { o \in ProviderOutcomes :
        \/ o.kind = "attr" /\ o.text = << "Top strengths: ..." >>
        \/ o.kind = "raise" /\ o.err = << "429 quota exceeded" >> }

-----------------------------------------------------------------------------
(* Initial states: the modules have been imported, run() has not run       *)

InitWith(missing, raw_provider, ctor_ok) ==
    /\ has_genai = ("genai" \notin missing)
    /\ API_KEY = IF "api_key" \in missing THEN NoKey ELSE SomeKey
    /\ API_PROVIDER = ProviderSetting(raw_provider)
    /\ genai_client = InitGenaiClient("genai" \notin missing, NoClient, ctor_ok)
    /\ ai_prompt = << >>
    /\ ai_out = NoAiCall
    /\ pdfminer_available = ("pdfminer" \notin missing)
    /\ pdfplumber_available = ("pdfplumber" \notin missing)
    /\ ResumeParser = ("pyresparser" \notin missing)
    /\ db_conn = ("pymysql" \notin missing /\ "mysql_server" \notin missing)
    /\ ai_import_ok = ("ai_client" \notin missing)
    /\ courses = IF "Courses" \in missing THEN FallbackTables ELSE CourseTables
    /\ choice = "User"
    /\ pdf_file = NoFile
    /\ no_of_reco = DefaultReco
    /\ pasted = << >>
    /\ run_out = NotRun
    /\ prev = NoPrev
    /\ db = [user_data |-> NoArgs, user_feedback |-> NoFeedback]
    /\ db_call = NoDbCall

\* at import genai.Client(api_key=API_KEY) gives a client; without a key
\* genai.Client() gives none until the environment supplies credentials
Init == \E missing \in Deployments : InitWith(missing, << >>, "api_key" \notin missing)

InitText == InitWith({}, << >>, TRUE)

InitAI ==
    \E missing \in SUBSET { "genai", "api_key" }, raw \in RawProviders,
       ctor_ok \in BOOLEAN :
        InitWith(missing, raw, ctor_ok)

-----------------------------------------------------------------------------
(* Actions                                                                 *)

\* the page is opened: the first execution of run()
OpenPage ==
    /\ ~run_out.ran
    /\ UNCHANGED << choice, pdf_file, pasted >>
    /\ Rerun(choice, pdf_file, no_of_reco, pasted, FALSE, NoFeedback, SessionOutcomes)

\* the sidebar selectbox is changed
SelectChoice(c) ==
    /\ run_out.ran
    /\ c # choice
    /\ choice' = c
    /\ UNCHANGED << pdf_file, pasted >>
    /\ Rerun(c, pdf_file, no_of_reco, pasted, FALSE, NoFeedback, SessionOutcomes)

\* a resume is chosen in the file uploader
UploadResume(files) ==
    /\ run_out.ran
    /\ choice = "User"
    /\ ~pdf_file.present
    /\ \E f \in files :
          /\ pdf_file' = f
          /\ UNCHANGED << choice, pasted >>
          /\ Rerun(choice, f, no_of_reco, pasted, FALSE, NoFeedback, SessionOutcomes)

\* the slider of course_recommender is moved
MoveSlider(n) ==
    /\ run_out.ran
    /\ run_out.a.slider_shown
    /\ n # no_of_reco
    /\ UNCHANGED << choice, pdf_file, pasted >>
    /\ Rerun(choice, pdf_file, n, pasted, FALSE, NoFeedback, SessionOutcomes)

\* resume text is pasted into the text area of the AI section
PasteText(t) ==
    /\ run_out.ran
    /\ run_out.paste_info_shown
    /\ t # pasted
    /\ pasted' = t
    /\ UNCHANGED << choice, pdf_file >>
    /\ Rerun(choice, pdf_file, no_of_reco, t, FALSE, NoFeedback, SessionOutcomes)

\* 'Get AI suggestions' is pressed
ClickGetAI ==
    /\ run_out.ran
    /\ UNCHANGED << choice, pdf_file, pasted >>
    /\ Rerun(choice, pdf_file, no_of_reco, pasted, TRUE, NoFeedback, SessionOutcomes)

\* the feedback form is submitted
SubmitFeedback(score) ==
    /\ run_out.ran
    /\ choice = "Feedback"
    /\ UNCHANGED << choice, pdf_file, pasted >>
    /\ Rerun(choice, pdf_file, no_of_reco, pasted, FALSE,
             [submitted |-> TRUE, feed_score |-> score], SessionOutcomes)

\* ask_ai(prompt) called on its own
AskAi(prompt, ctor_ok, outcome) ==
    LET r == ask_ai(prompt, has_genai, API_KEY, API_PROVIDER, genai_client, ctor_ok,
                    outcome)
    IN  /\ ai_prompt' = prompt
        /\ ai_out' = r
        /\ genai_client' = r.client
        /\ UNCHANGED << has_genai, API_KEY, API_PROVIDER >>
        /\ UNCHANGED appVars

\* the row a call of insert_data on its own is given
SampleRow ==
    [called |-> TRUE, res_score |-> DecStr(PtsSkills), no_of_pages |-> DecStr(1),
     reco_field |-> "", cand_level |-> "Fresher",
     recommended_skills |-> ListRepr(<< >>), courses |-> << >>]

\* insert_data(...) called on its own with nargs arguments
CallInsertData(nargs, exec_ok) ==
    LET r == insert_data_call(db_conn, nargs, exec_ok)
    IN  /\ db_call' = [called |-> TRUE, fn |-> "insert_data", nargs |-> nargs,
                       exec_ok |-> exec_ok, executed |-> r.executed,
                       committed |-> r.committed, raised |-> r.raised]
        /\ db' = [user_data |-> IF r.committed THEN SampleRow ELSE NoArgs,
                  user_feedback |-> NoFeedback]
        /\ UNCHANGED << pdfminer_available, pdfplumber_available, ResumeParser,
                        db_conn, ai_import_ok, courses, choice, pdf_file, no_of_reco,
                        pasted, run_out, prev >>
        /\ UNCHANGED aiVars

\* insertf_data(...) called on its own with nargs arguments
CallInsertfData(nargs, exec_ok) ==
    LET r == insertf_data_call(db_conn, nargs, exec_ok)
    IN  /\ db_call' = [called |-> TRUE, fn |-> "insertf_data", nargs |-> nargs,
                       exec_ok |-> exec_ok, executed |-> r.executed,
                       committed |-> r.committed, raised |-> r.raised]
        /\ db' = [user_data |-> NoArgs,
                  user_feedback |-> IF r.committed
                                    THEN [submitted |-> TRUE, feed_score |-> 5]
                                    ELSE NoFeedback]
        /\ UNCHANGED << pdfminer_available, pdfplumber_available, ResumeParser,
                        db_conn, ai_import_ok, courses, choice, pdf_file, no_of_reco,
                        pasted, run_out, prev >>
        /\ UNCHANGED aiVars

SliderPositions == (1..MaxReco) \cup { DefaultReco }

Next ==
    \/ OpenPage
    \/ \E c \in Choices : SelectChoice(c)
    \/ UploadResume(SessionFiles)
    \/ \E n \in SliderPositions : MoveSlider(n)
    \/ ClickGetAI
    \/ \E score \in { 1, 5 } : SubmitFeedback(score)

\* the session of one user
Spec == Init /\ [][Next]_vars

NextText ==
    \/ OpenPage
    \/ UploadResume(TextFiles)
    \/ \E t \in { << >>, TextExample3 } : PasteText(t)

\* a complete deployment, over every resume text
SpecText == InitText /\ [][NextText]_vars

NextSkills ==
    \/ OpenPage
    \/ UploadResume(SkillFiles)

\* a complete deployment, over every skill list
SpecSkills == InitText /\ [][NextSkills]_vars

NextDB ==
    \/ \E nargs \in (NArgsUserData - 1)..(NArgsUserData + 1), exec_ok \in BOOLEAN :
          CallInsertData(nargs, exec_ok)
    \/ \E nargs \in (NArgsFeedback - 1)..(NArgsFeedback + 1), exec_ok \in BOOLEAN :
          CallInsertfData(nargs, exec_ok)

\* insert_data and insertf_data under every deployment
SpecDB == Init /\ [][NextDB]_vars

NextAI ==
    \E prompt \in Prompts, ctor_ok \in BOOLEAN, outcome \in ProviderOutcomes :
        AskAi(prompt, ctor_ok, outcome)

\* ask_ai under every configuration of ai_client.py
SpecAI == InitAI /\ [][NextAI]_vars

-----------------------------------------------------------------------------
(* Properties                                                              *)

\* a name occurs in a text whatever the case of either
Occurs(name, text) == Contains(Lower(name), Lower(text))

\* a section check has one of its names in the text
CheckOccurs(k, text) ==
    \E i \in 1..Len(SectionChecks[k].names) : Occurs(SectionChecks[k].names[i], text)

\* the sum of the points of the checks in K
RECURSIVE PointsOf(_)
PointsOf(K) ==
    IF K = {} THEN 0
    ELSE LET k == CHOOSE x \in K : TRUE
         IN  SectionChecks[k].pts + PointsOf(K \ {k})

\* the number a displayed or stored score string reads as
ShownScore == DecVal(SubSeq(run_out.a.score_msg, 2, Len(run_out.a.score_msg) - 1))
StoredScore == DecVal(run_out.a.insert_args.res_score)

\* C1: for every resume text and parser output the score of the scoring pass
\* is an integer in 0..100 after each accumulation step, in the progress bar
\* and the displayed message, and in the string handed to insert_data.
C1_ScoreInRange ==
    run_out.analysed =>
        /\ \A k \in 1..Len(run_out.a.score_steps) :
              run_out.a.score_steps[k] \in 0..100
        /\ run_out.a.resume_score \in 0..100
        /\ run_out.a.bar = run_out.a.resume_score
        /\ ShownScore = run_out.a.resume_score
        /\ run_out.a.insert_args.called
        /\ StoredScore = run_out.a.resume_score

\* C1 case: a resume with every section was scored and its row committed
C1_Witness ==
    /\ run_out.analysed
    /\ run_out.insert_committed
    /\ \A k \in 1..Len(SectionChecks) : CheckOccurs(k, run_out.resume_text)
    /\ run_out.a.resume_score = PointsOf(1..Len(SectionChecks))

\* C2 as stated: the experienced signal is tested before the intern signal, so
\* that (here for parser outputs that report at least one page) a text with
\* 'EXPERIENCE' is Experienced even if it has 'INTERNSHIP' too, a text with
\* only 'INTERNSHIP' is Intermediate, and a text with neither is Fresher.
C2_ExperiencedFirst ==
    run_out.analysed /\ PagesOf(run_out.resume_data) >= 1 =>
        run_out.a.cand_level =
            IF Occurs(KW_EXPERIENCE, run_out.resume_text) THEN "Experienced"
            ELSE IF Occurs(KW_INTERNSHIP, run_out.resume_text) THEN "Intermediate"
            ELSE "Fresher"

\* C2 amended: the intern signal is tested before the experienced signal: a
\* text with 'INTERNSHIP' (in any case) is Intermediate even if it has
\* 'EXPERIENCE' too, a text with only 'EXPERIENCE' is Experienced, a text with
\* neither is Fresher; and when the parser reports fewer than one page the
\* stored level is NA whatever the text.
C2_InternFirst ==
    run_out.analysed =>
        run_out.a.cand_level =
            IF ~("no_of_pages" \in run_out.resume_data.keys
                 /\ run_out.resume_data.no_of_pages >= 1) THEN "NA"
            ELSE IF Occurs(KW_INTERNSHIP, run_out.resume_text) THEN "Intermediate"
            ELSE IF Occurs(KW_EXPERIENCE, run_out.resume_text) THEN "Experienced"
            ELSE "Fresher"

\* C2 case: a text with both signals, a page count of at least one
C2_Witness ==
    /\ run_out.analysed
    /\ PagesOf(run_out.resume_data) >= 1
    /\ Occurs(KW_EXPERIENCE, run_out.resume_text)
    /\ Occurs(KW_INTERNSHIP, run_out.resume_text)
    /\ run_out.a.cand_level = "Intermediate"

\* C3: for the text "Senior engineer with RTOS and firmware experience,
\* 9 years" the level is Experienced whatever the parser output is.
C3_Example3Experienced ==
    run_out.analysed /\ run_out.resume_text = TextExample3 =>
        run_out.a.cand_level = "Experienced"

\* C4: with an empty resume text (also the one substituted when extraction
\* failed) the run raises nothing and the analysis gives the baseline: level
\* Fresher, score 0 and, with an empty skill list, no field and no
\* recommended skills.
C4_EmptyTextBaseline ==
    run_out.uploaded /\ run_out.resume_text = << >> =>
        /\ ~run_out.raised
        /\ run_out.analysed =>
              /\ run_out.a.cand_level = "Fresher"
              /\ run_out.a.resume_score = 0
              /\ Get(run_out.resume_data, "skills", << >>) = << >> =>
                    /\ run_out.a.reco_field = ""
                    /\ run_out.a.recommended_skills = << >>

\* C5: the score is the sum, over the section checks one of whose names occurs
\* in the text in any case, of the check's points, each check counted once;
\* 0 when no name occurs, the sum of all points when every name occurs.
C5_ScoreIsSumOfSections ==
    run_out.analysed =>
        LET present == { k \in 1..Len(SectionChecks) :
                           CheckOccurs(k, run_out.resume_text) }
        IN  /\ run_out.a.resume_score = PointsOf(present)
            /\ present = {} => run_out.a.resume_score = 0
            /\ present = 1..Len(SectionChecks) =>
                  run_out.a.resume_score = PointsOf(1..Len(SectionChecks))

\* C5 case: both names of the first check and every other name occur, and
\* the score is the sum of the six points
C5_Witness ==
    /\ run_out.analysed
    /\ \A k \in 1..Len(SectionChecks) :
          \A i \in 1..Len(SectionChecks[k].names) :
              Occurs(SectionChecks[k].names[i], run_out.resume_text)
    /\ run_out.a.resume_score =
          PtsObjective + PtsEducation + PtsExperience + PtsInternship + PtsSkills
          + PtsProjects

\* two executions of run() analysed the same text and parsed data
SameInputsTwice ==
    /\ prev.valid
    /\ run_out.analysed
    /\ prev.resume_text = run_out.resume_text
    /\ prev.resume_data = run_out.resume_data

\* C6 as stated (here with the slider left where it was): two runs on the same
\* text and parsed data hand the same level, score, field, recommended skills
\* and recommended courses to insert_data.
C6_SameRecord ==
    SameInputsTwice /\ prev.no_of_reco = no_of_reco =>
        prev.a.insert_args = run_out.a.insert_args

\* the names of a course table
CourseNames(table) == { courses[table][i][1] : i \in 1..Len(courses[table]) }

\* C6 amended: two runs on the same text and parsed data hand the same level,
\* score, field and recommended skills to insert_data; the recommended courses
\* are names of the predicted field's table, as many in both runs when the
\* slider was left where it was, in an order that may differ.
C6_SameRecordButCourses ==
    SameInputsTwice =>
        /\ prev.a.insert_args.cand_level = run_out.a.insert_args.cand_level
        /\ prev.a.insert_args.res_score = run_out.a.insert_args.res_score
        /\ prev.a.insert_args.reco_field = run_out.a.insert_args.reco_field
        /\ prev.a.insert_args.recommended_skills
              = run_out.a.insert_args.recommended_skills
        /\ prev.a.rec_course.is_list = run_out.a.rec_course.is_list
        /\ run_out.a.rec_course.is_list =>
              /\ \A i \in 1..Len(run_out.a.rec_course.v) :
                    run_out.a.rec_course.v[i]
                        \in CourseNames(CourseTableOf(run_out.a.reco_field))
              /\ prev.no_of_reco = no_of_reco =>
                    Len(prev.a.rec_course.v) = Len(run_out.a.rec_course.v)
        /\ ~run_out.a.rec_course.is_list =>
              prev.a.rec_course = run_out.a.rec_course

\* C6 case: the same resume analysed twice with the slider unmoved, the
\* courses recommended differing
C6_Witness ==
    /\ SameInputsTwice
    /\ prev.no_of_reco = no_of_reco
    /\ run_out.a.resume_score > 0
    /\ prev.a.insert_args.courses # run_out.a.insert_args.courses

\* C7: run() leaves every shared course table as it was, contents and order.
C7_TablesReadOnly == [][courses' = courses]_vars

\* C8: no failure of a collaborator leaves run(): run() reaches its end; a
\* failed extraction leaves the empty text, a failing or missing pyresparser
\* the empty parse result, a failing insert no row, a failing provider call
\* the error message on the page.
C8_FailuresContained ==
    run_out.ran =>
        /\ ~run_out.raised
        /\ run_out.completed
        /\ run_out.extract_failed => run_out.resume_text = << >>
        /\ run_out.uploaded /\ (~ResumeParser \/ pdf_file.parsed.kind = "raise") =>
              /\ run_out.resume_data = EmptyDict
              /\ run_out.parse_error_shown
        /\ run_out.db_failed =>
              /\ db.user_data = NoArgs
              /\ db.user_feedback = NoFeedback
        /\ ai_out.called /\ ai_out.gemini_raised =>
              /\ run_out.ai_text = ai_out.ret
              /\ run_out.ai_text # << >>
              /\ ~run_out.ai_error_shown

\* C8 case: in one run extraction failed, the insert failed and the provider
\* call failed
C8_Witness ==
    /\ run_out.completed
    /\ run_out.extract_failed
    /\ run_out.analysed
    /\ run_out.db_failed
    /\ ai_out.called /\ ai_out.gemini_raised

\* the message ask_ai would give if the text did not vary with the error
StaticProviderError == MsgProviderError(CHOOSE e \in Errors : TRUE)

\* C9 as stated: when call_gemini raises, ask_ai raises nothing and returns
\* one fixed text whatever the error was.
C9_StaticMessage ==
    ai_out.called /\ ai_out.gemini_raised =>
        /\ ~ai_out.raised
        /\ ai_out.ret = StaticProviderError

\* C9 amended: when call_gemini raises, ask_ai raises nothing and returns a
\* message that starts with the fixed text "AI provider error (Gemini): "
\* followed by the text of the error and a traceback, so it varies with the
\* error.
C9_ErrorMessage ==
    ai_out.called /\ ai_out.gemini_raised =>
        /\ ~ai_out.raised
        /\ ai_out.ret[1] = "AI provider error (Gemini): "
        /\ SubSeq(ai_out.ret, 2, 1 + Len(ai_out.err)) = ai_out.err
        /\ ai_out.err \in Errors
        /\ ~ai_out.generated

\* C9 case: the provider raised and ask_ai returned a message
C9_Witness ==
    /\ ai_out.called
    /\ ai_out.gemini_raised
    /\ ai_out.provider_called
    /\ ai_out.ret # << >>

FallbackMessages == { MsgNoPrompt, MsgNotEnabled, MsgNotConfigured }

\* C10: ask_ai returns generated text only when the SDK and an API key are
\* both there; when the SDK or the key is missing it returns a fallback
\* message and the provider is not called.
C10_NeedsSdkAndKey ==
    ai_out.called =>
        /\ ai_out.generated => has_genai /\ Truthy(API_KEY)
        /\ ~has_genai \/ ~Truthy(API_KEY) =>
              /\ ai_out.ret \in FallbackMessages
              /\ ~ai_out.provider_called

\* the keyword table of each field
TableOf(field) ==
    CASE field = "Data Science" -> ds_keyword
      [] field = "Web Development" -> web_keyword
      [] field = "Android Development" -> android_keyword
      [] field = "IOS Development" -> ios_keyword
      [] field = "UI-UX Development" -> uiux_keyword
      [] field = "NA" -> n_any
      [] OTHER -> << >>

\* the fields in the order the tables are tested, the five domains first
FieldOrder ==
    << "Data Science", "Web Development", "Android Development", "IOS Development",
       "UI-UX Development", "NA" >>
Domains == { FieldOrder[k] : k \in 1..5 }

\* skill number i of the list is a string whose lower-cased form is in the
\* table of the field
Matches(skills_list, i, field) ==
    /\ skills_list[i] # PyNone
    /\ InList(Lower(skills_list[i]), TableOf(field))

\* keyword-hit score of a field: how many skills of the list match it
Hits(skills_list, field) ==
    Cardinality({ i \in 1..Len(skills_list) : Matches(skills_list, i, field) })

\* position of the first skill matching the field, past the end when none
FirstHit(skills_list, field) ==
    IF \E i \in 1..Len(skills_list) : Matches(skills_list, i, field)
    THEN CHOOSE i \in 1..Len(skills_list) :
            /\ Matches(skills_list, i, field)
            /\ \A j \in 1..(i - 1) : ~Matches(skills_list, j, field)
    ELSE Len(skills_list) + 1

\* the skill list of the resume analysed
SkillsAnalysed == Get(run_out.resume_data, "skills", << >>)

\* C11 as stated: no domain has strictly more matching skills than the field
\* reported as reco_field.
C11_MaxHitsField ==
    run_out.analysed =>
        \A d \in Domains :
            Hits(SkillsAnalysed, d) <= Hits(SkillsAnalysed, run_out.a.reco_field)

\* C11 amended: the field reported is the one whose first matching skill comes
\* earliest in the list (a skill in two tables counting for the table tested
\* first), not the one with the most matching skills; it has at least one
\* matching skill, and the field is empty exactly when no skill matches.
C11_EarliestHitField ==
    run_out.analysed =>
        LET sk == SkillsAnalysed
            f == run_out.a.reco_field
        IN  IF \A k \in 1..Len(FieldOrder) : Hits(sk, FieldOrder[k]) = 0
            THEN f = ""
            ELSE \E k \in 1..Len(FieldOrder) :
                    /\ f = FieldOrder[k]
                    /\ Hits(sk, f) >= 1
                    /\ \A j \in 1..Len(FieldOrder) :
                          \/ FirstHit(sk, f) < FirstHit(sk, FieldOrder[j])
                          \/ FirstHit(sk, f) = FirstHit(sk, FieldOrder[j]) /\ k <= j

\* C11 case: the field reported has fewer matching skills than another domain
C11_Witness ==
    /\ run_out.analysed
    /\ run_out.a.reco_field = "Data Science"
    /\ Hits(SkillsAnalysed, "Web Development") > Hits(SkillsAnalysed, "Data Science")

\* C12: for every uploaded resume the run produces a fully populated result:
\* a level, a score, a field and skill lists are computed, shown and handed to
\* insert_data, with empty defaults where nothing was found, also when the
\* parser is missing or returns nothing.
C12_FullyPopulated ==
    run_out.uploaded =>
        /\ run_out.analysed
        /\ ~run_out.parse_error_shown
        /\ run_out.a.cand_level # ""
        /\ run_out.a.score_msg # << >>
        /\ run_out.a.insert_args.called

\* C13: extract_text_from_pdf calls pdfplumber only if pdfminer is missing or
\* its call raised, returns what the first backend that succeeds returns, and
\* raises only if no backend it called returned text.
C13_MinerThenPlumber ==
    run_out.uploaded =>
        LET x == run_out.extraction
        IN  /\ x.miner_tried = pdfminer_available
            /\ x.plumber_tried =>
                  /\ pdfplumber_available
                  /\ ~pdfminer_available \/ pdf_file.miner.raises
            /\ x.backend = "pdfminer" =>
                  /\ x.miner_tried /\ ~pdf_file.miner.raises
                  /\ ~x.raised /\ x.text = pdf_file.miner.text
            /\ x.backend = "pdfplumber" =>
                  /\ x.plumber_tried /\ ~pdf_file.plumber.raises
                  /\ ~x.raised
                  /\ x.text = Join([i \in 1..Len(pdf_file.plumber.pages) |->
                                      IF pdf_file.plumber.pages[i] = PyNone THEN << >>
                                      ELSE pdf_file.plumber.pages[i]], << "\n" >>)
            /\ x.raised =>
                  /\ x.miner_tried => pdf_file.miner.raises
                  /\ x.plumber_tried => pdf_file.plumber.raises
            /\ x.raised <=> x.backend = ""

\* C13 case: pdfminer was called and raised, pdfplumber's pages were returned
C13_Witness ==
    /\ run_out.uploaded
    /\ run_out.extraction.miner_tried
    /\ pdf_file.miner.raises
    /\ run_out.extraction.plumber_tried
    /\ run_out.extraction.backend = "pdfplumber"
    /\ run_out.resume_text # << >>

\* C14 as stated: insert_data and insertf_data execute and commit only with
\* the connection established at start-up, do nothing without it, and in every
\* case, a failing execute and a wrong number of arguments included, return
\* without raising.
C14_NeverRaises ==
    db_call.called =>
        /\ db_call.executed \/ db_call.committed => db_conn
        /\ ~db_conn => db.user_data = NoArgs /\ db.user_feedback = NoFeedback
        /\ ~db_call.raised

\* C14 amended: insert_data and insertf_data execute and commit only with the
\* connection established at start-up and do nothing without it.  Given the
\* number of arguments of its signature, neither raises, a failing execute
\* included; insert_data given a wrong number of arguments does not raise
\* either, while insertf_data given a wrong number raises TypeError at the
\* call and writes nothing.
C14_WritesOnlyWhenConnected ==
    db_call.called =>
        /\ db_call.executed \/ db_call.committed => db_conn
        /\ ~db_conn => db.user_data = NoArgs /\ db.user_feedback = NoFeedback
        /\ db_call.committed => db_call.executed /\ db_call.exec_ok
        /\ db_call.fn = "insert_data" => ~db_call.raised
        /\ db_call.fn = "insertf_data" =>
              (db_call.raised <=> db_call.nargs # NArgsFeedback)
        /\ db_call.raised => ~db_call.executed /\ ~db_call.committed

\* C14 case: with the connection, insert_data was given one argument too few
\* and returned, having written nothing
C14_Witness ==
    /\ db_call.called
    /\ db_conn
    /\ db_call.fn = "insert_data"
    /\ db_call.nargs # NArgsUserData
    /\ ~db_call.raised
    /\ db.user_data = NoArgs

\* C15: when a resume was uploaded and non-empty text extracted from it, the
\* AI section of the same run uses that text: the paste fallback is not shown,
\* and the prompt given to ask_ai on 'Get AI suggestions' contains the text.
C15_AiUsesExtractedText ==
    run_out.uploaded /\ run_out.resume_text # << >> =>
        /\ ~run_out.paste_info_shown
        /\ run_out.ai_clicked /\ ai_out.called =>
              Contains(run_out.resume_text, ai_prompt)

\* C16: ask_ai is total: for every prompt and every configuration it returns
\* a non-empty string and raises nothing; for the empty prompt it returns
\* 'No prompt provided.' without touching the client or the provider.
C16_AskAiTotal ==
    ai_out.called =>
        /\ ~ai_out.raised
        /\ Truthy(ai_out.ret)
        /\ ~Truthy(ai_prompt) =>
              /\ ai_out.ret = << "No prompt provided." >>
              /\ ~ai_out.init_attempted
              /\ ~ai_out.gemini_called
              /\ ~ai_out.provider_called

\* C16 case: the provider was called and returned a response with no text
C16_Witness ==
    /\ ai_out.called
    /\ ai_out.provider_called
    /\ ~ai_out.gemini_raised
    /\ ~ai_out.generated
    /\ ai_out.ret = << "No text returned from model." >>

\* C17: ask_ai calls call_gemini only if API_PROVIDER is "" or "gemini", the
\* SDK was imported and the client is there at the call; it tries to
\* initialise the client only if there was none, and if the attempt fails it
\* returns a fallback message without calling call_gemini.
C17_ProviderCallGuarded ==
    [][ ai_out'.called =>
          /\ ai_out'.gemini_called =>
                /\ API_PROVIDER \in { << >>, << "g", "e", "m", "i", "n", "i" >> }
                /\ has_genai
                /\ genai_client' # NoClient
          /\ ai_out'.provider_called => ai_out'.gemini_called
          /\ ai_out'.init_attempted =>
                /\ genai_client = NoClient
                /\ has_genai
                /\ ai_prompt' # << >>
          /\ ai_out'.init_attempted /\ genai_client' = NoClient =>
                /\ ~ai_out'.gemini_called
                /\ ai_out'.ret \in { MsgNotEnabled, MsgNotConfigured } ]_vars

\* C17 case: there was no client, the initialisation attempt failed, and the
\* fallback was returned without a call
C17_Witness ==
    /\ ai_out.called
    /\ ai_out.init_attempted
    /\ genai_client = NoClient
    /\ ~ai_out.gemini_called
    /\ ai_out.ret = MsgNotConfigured

\* C18: in the Feedback flow 'Thanks! Your Feedback was recorded.' is shown
\* after a submit only if insertf_data committed the feedback row.
C18_ThanksOnlyIfCommitted ==
    run_out.feedback_submitted /\ run_out.thanks_shown =>
        /\ run_out.feedback_committed
        /\ db.user_feedback.submitted

\* the branches that call course_recommender
RecommenderCalls(branches) ==
    Cardinality({ i \in 1..Len(branches) : CourseTableOf(branches[i]) # "" })

\* C19: the field is decided by the first skill of the list whose lower-cased
\* form is in a keyword table, the tables being tested in the order Data
\* Science, Web, Android, iOS, UI/UX, generic; the scan stops there, so at most
\* one branch and at most one course_recommender call execute in a run; with
\* no matching skill the field stays empty.
C19_FirstMatchingSkill ==
    run_out.analysed =>
        LET sk == SkillsAnalysed
            a == run_out.a
            InSomeTable(i) == \E k \in 1..Len(FieldOrder) : Matches(sk, i, FieldOrder[k])
            deciding == { i \in 1..Len(sk) :
                            InSomeTable(i) /\ \A j \in 1..(i - 1) : ~InSomeTable(j) }
        IN  /\ Len(a.branches) <= 1
            /\ RecommenderCalls(a.branches) <= 1
            /\ a.rec_course.is_list <=> RecommenderCalls(a.branches) = 1
            /\ deciding = {} =>
                  /\ a.reco_field = ""
                  /\ a.branches = << >>
                  /\ a.recommended_skills = << >>
                  /\ a.rec_course.v = << >>
            /\ \A i \in deciding :
                  \E k \in 1..Len(FieldOrder) :
                      /\ Matches(sk, i, FieldOrder[k])
                      /\ \A j \in 1..(k - 1) : ~Matches(sk, i, FieldOrder[j])
                      /\ a.reco_field = FieldOrder[k]
                      /\ a.branches = << FieldOrder[k] >>
                      /\ a.insert_args.reco_field = FieldOrder[k]

\* C19 case: the first skill is in no table, the second is in two tables and
\* decides the field, a later one is in another field's table
C19_Witness ==
    /\ run_out.analysed
    /\ Len(SkillsAnalysed) = 3
    /\ \A k \in 1..Len(FieldOrder) : ~Matches(SkillsAnalysed, 1, FieldOrder[k])
    /\ Matches(SkillsAnalysed, 2, "Data Science")
    /\ Matches(SkillsAnalysed, 2, "Web Development")
    /\ Matches(SkillsAnalysed, 3, "UI-UX Development")
    /\ run_out.a.reco_field = "Data Science"
    /\ run_out.a.rec_course.is_list

====
